---- MODULE Spec2Model ----
(***************************************************************************)
(* Model of src/server/auth.ts: the NextAuth `session` callback (session   *)
(* hydration) and the `createUser` event handler (new-user reward).        *)
(*                                                                         *)
(* Every `await` of the source is a point where other invocations may run, *)
(* so each handler is split into one action per resumption.  The credits   *)
(* service and the idea table are shared state; each invocation keeps its  *)
(* own locals in a record.                                                 *)
(***************************************************************************)
EXTENDS Integers, Sequences, FiniteSets

\* ---------------------------------------------------------------- bounds
\* number of createUser invocations a behaviour may hold
NumHandlers == 2
\* number of rows of the idea table
NumIdeas == 4

\* ------------------------------------------------------------- constants
\* a page size one too large
takeOffByOne == 3 + 1

\* `take: 3` of both findMany calls
take == 3
\* amount of CreditsService.reward(message.user.id, 3)
RewardAmount == 3

Users == {"u1", "u2"}
NoUser == "none"
Handlers == 1..NumHandlers
Sessions == {"s1"}
\* balances a user may hold before any handler of this file has run
InitialBalances == {0, 1, 3}

VARIABLES
    credits,    \* credits service: user id -> balance
    ideas,      \* idea table, in row order
    handler,    \* createUser invocations: slot -> locals
    sess        \* session callback invocations: slot -> locals and session object

vars == <<credits, ideas, handler, sess>>

\* ------------------------------------------------------------ idea store
Row(i, a, sb) == [id |-> i, authorId |-> a, savedBy |-> sb]

\* all tables of n rows
Stores(n) ==
    { [i \in 1..n |-> Row(i, a[i], sb[i])] :
        a \in [1..n -> Users], sb \in [1..n -> SUBSET Users] }

\* tables whose rows all have the same author and the same savers
UniformStores ==
    { [i \in 1..NumIdeas |-> Row(i, a, sb)] : a \in Users, sb \in SUBSET Users }

Min(a, b) == IF a < b THEN a ELSE b

\* a filter that forgets the user: any idea somebody saved
savedByAnyone(idea, u) == idea.savedBy # {}

\* where: { savedBy: { some: { id: user.id } } }
savedByUser(idea, u) == u \in idea.savedBy

\* where: { authorId: user.id }
authoredBy(idea, u) == idea.authorId = u

\* the rows of the table
rowsOf(table) == { table[i] : i \in 1..Len(table) }

\* prisma.idea.findMany({ take, where }): the first `n` rows among `matching`,
\* the rows the where-clause keeps
findMany(table, matching, n) ==
    LET hits == SelectSeq(table, LAMBDA r : r \in matching)
    IN  SubSeq(hits, 1, Min(n, Len(hits)))

\* ideaToIdeaDto(idea, saved): the transfer representation of one row
ideaToIdeaDto(idea, saved) ==
    [id |-> idea.id, author |-> idea.authorId, saved |-> saved]

\* rows.map((idea) => ideaToIdeaDto(idea, saved))
mapDto(rows, saved) == [i \in 1..Len(rows) |-> ideaToIdeaDto(rows[i], saved)]

savedIdeasOf(table, u) ==
    mapDto(findMany(table, { r \in rowsOf(table) : savedByUser(r, u) }, take), TRUE)

ideasOf(table, u) ==
    mapDto(findMany(table, { r \in rowsOf(table) : authoredBy(r, u) }, take), FALSE)

\* -------------------------------------------------------- credits service
\* CreditsService.balance(userId)
balance(cr, u) == cr[u]

\* CreditsService.reward(userId, amount)
reward(cr, u, amount) == [cr EXCEPT ![u] = @ + amount]

\* -------------------------------------------------------------- createUser
IdleHandler ==
    [pc |-> "idle", user |-> NoUser, balance |-> 0, rewards |-> <<>>,
     before |-> 0, failedAt |-> "none"]

\* `if (balance)`: the test inverted
rewardWhenNonZero(b) == b # 0

\* a top-up of every balance below the grant
rewardBelowGrant(b) == b < 3

\* no test at all
rewardAlways(b) == TRUE

\* `if (!balance)`
shouldReward(b) == b = 0

\* invocations are numbered in the order they start
MayStart(c) == handler[c].pc = "idle" /\ \A d \in Handlers : d < c => handler[d].pc # "idle"

\* createUser(message): the handler is entered and balance() is called
createUserStart(c, u) ==
    /\ MayStart(c)
    /\ handler' = [handler EXCEPT ![c] =
                     [IdleHandler EXCEPT !.pc = "balance", !.user = u,
                                         !.before = credits[u]]]
    /\ UNCHANGED <<credits, ideas, sess>>

\* `await CreditsService.balance(...)` resolves; on a falsy balance the
\* handler calls reward(), otherwise it returns
createUserBalance(c) ==
    /\ handler[c].pc = "balance"
    /\ LET b == balance(credits, handler[c].user)
       IN  handler' = [handler EXCEPT ![c] =
                         IF shouldReward(b)
                         THEN [@ EXCEPT !.pc = "reward", !.balance = b,
                                        !.rewards = Append(@, RewardAmount)]
                         ELSE [@ EXCEPT !.pc = "done", !.balance = b]]
    /\ UNCHANGED <<credits, ideas, sess>>

\* `await CreditsService.reward(...)` resolves
createUserReward(c) ==
    /\ handler[c].pc = "reward"
    /\ credits' = reward(credits, handler[c].user, handler[c].rewards[Len(handler[c].rewards)])
    /\ handler' = [handler EXCEPT ![c].pc = "done"]
    /\ UNCHANGED <<ideas, sess>>

\* the rejection caught and read as "no balance": the handler goes on to reward
swallowBalanceError(h) ==
    [h EXCEPT !.pc = "reward", !.failedAt = "balance", !.rewards = Append(@, 3)]

\* the awaited balance() rejects: nothing catches it
onBalanceError(h) == [h EXCEPT !.pc = "failed", !.failedAt = "balance"]

createUserBalanceFails(c) ==
    /\ handler[c].pc = "balance"
    /\ handler' = [handler EXCEPT ![c] = onBalanceError(@)]
    /\ UNCHANGED <<credits, ideas, sess>>

\* the awaited reward() rejects; the service may or may not have applied it
createUserRewardFails(c) ==
    /\ handler[c].pc = "reward"
    /\ handler' = [handler EXCEPT ![c].pc = "failed", ![c].failedAt = "reward"]
    /\ \/ credits' = credits
       \/ credits' = reward(credits, handler[c].user, handler[c].rewards[Len(handler[c].rewards)])
    /\ UNCHANGED <<ideas, sess>>

\* ----------------------------------------------------------------- session
IdleSession ==
    [pc |-> "idle", user |-> NoUser, hasUser |-> FALSE, fields |-> {},
     id |-> NoUser, credits |-> 0, savedIdeas |-> <<>>, ideas |-> <<>>,
     queries |-> <<>>, failedAt |-> "none", creditsAtStart |-> 0, creditsAtRead |-> 0]

\* session({ session, user }) is entered.  With session.user present the guarded
\* block sets the id and calls balance().  With session.user absent control
\* reaches `session.user.ideas = (await findMany(...))`: the engine either
\* rejects the undefined base at once or evaluates the right-hand side first
\* (issuing the query) and rejects at the store.
sessionStart(s, u, present) ==
    /\ sess[s].pc = "idle"
    /\ LET x == [IdleSession EXCEPT !.user = u, !.hasUser = present,
                                    !.creditsAtStart = credits[u]]
       IN  IF present
           THEN sess' = [sess EXCEPT ![s] =
                           [x EXCEPT !.pc = "balance", !.id = u, !.fields = {"id"},
                                     !.queries = <<"balance">>]]
           ELSE \/ sess' = [sess EXCEPT ![s] =
                              [x EXCEPT !.pc = "ideas", !.queries = <<"ideas">>]]
                \/ sess' = [sess EXCEPT ![s] =
                              [x EXCEPT !.pc = "failed", !.failedAt = "assign"]]
    /\ UNCHANGED <<credits, ideas, handler>>

\* the balance as it was when the callback was entered
cachedCredits(s) == sess[s].creditsAtStart

\* `session.user.credits = await CreditsService.balance(user.id)`
sessionCredits(s) == balance(credits, sess[s].user)

\* a balance read that spends a credit
sessionBalanceSpends(s) ==
    /\ sess[s].pc = "balance"
    /\ sess' = [sess EXCEPT ![s] =
                  [@ EXCEPT !.pc = "savedIdeas", !.credits = credits[sess[s].user],
                            !.creditsAtRead = credits[sess[s].user],
                            !.fields = @ \cup {"credits"},
                            !.queries = Append(@, "savedIdeas")]]
    /\ credits' = [credits EXCEPT ![sess[s].user] = @ - 1]
    /\ UNCHANGED <<ideas, handler>>

\* balance() resolves; the saved-ideas query is issued
sessionBalance(s) ==
    /\ sess[s].pc = "balance"
    /\ sess' = [sess EXCEPT ![s] =
                  [@ EXCEPT !.pc = "savedIdeas", !.credits = sessionCredits(s),
                            !.creditsAtRead = credits[sess[s].user],
                            !.fields = @ \cup {"credits"},
                            !.queries = Append(@, "savedIdeas")]]
    /\ UNCHANGED <<credits, ideas, handler>>

\* the saved-ideas query resolves; the authored-ideas query is issued
sessionSavedIdeas(s) ==
    /\ sess[s].pc = "savedIdeas"
    /\ sess' = [sess EXCEPT ![s] =
                  [@ EXCEPT !.pc = "ideas",
                            !.savedIdeas = savedIdeasOf(ideas, sess[s].user),
                            !.fields = @ \cup {"savedIdeas"},
                            !.queries = Append(@, "ideas")]]
    /\ UNCHANGED <<credits, ideas, handler>>

\* the store skipped when session.user is absent, and the session returned
assignIdeasGuarded(x, list) ==
    IF x.hasUser
    THEN [x EXCEPT !.pc = "returned", !.ideas = list, !.fields = @ \cup {"ideas"}]
    ELSE [x EXCEPT !.pc = "returned"]

\* `session.user.ideas = ...; return session`: the store into session.user
\* throws when session.user is absent
assignIdeas(x, list) ==
    IF x.hasUser
    THEN [x EXCEPT !.pc = "returned", !.ideas = list, !.fields = @ \cup {"ideas"}]
    ELSE [x EXCEPT !.pc = "failed", !.failedAt = "assign"]

\* the authored-ideas query resolves
sessionIdeas(s) ==
    /\ sess[s].pc = "ideas"
    /\ sess' = [sess EXCEPT ![s] = assignIdeas(@, ideasOf(ideas, sess[s].user))]
    /\ UNCHANGED <<credits, ideas, handler>>

\* an awaited balance() or findMany() rejects: nothing catches it
onQueryError(x) == [x EXCEPT !.pc = "failed", !.failedAt = x.pc]

sessionQueryFails(s) ==
    /\ sess[s].pc \in {"balance", "savedIdeas", "ideas"}
    /\ sess' = [sess EXCEPT ![s] = onQueryError(@)]
    /\ UNCHANGED <<credits, ideas, handler>>

\* ---------------------------------------------------------- specifications
HandlerStep ==
    \/ \E c \in Handlers : createUserBalance(c)
    \/ \E c \in Handlers : createUserReward(c)
    \/ \E c \in Handlers : createUserBalanceFails(c)
    \/ \E c \in Handlers : createUserRewardFails(c)

SessionStep ==
    \/ \E s \in Sessions, u \in Users, present \in BOOLEAN : sessionStart(s, u, present)
    \/ \E s \in Sessions : sessionBalance(s)
    \/ \E s \in Sessions : sessionSavedIdeas(s)
    \/ \E s \in Sessions : sessionIdeas(s)
    \/ \E s \in Sessions : sessionQueryFails(s)

Init ==
    /\ credits \in [Users -> InitialBalances]
    /\ ideas \in UniformStores
    /\ handler = [c \in Handlers |-> IdleHandler]
    /\ sess = [s \in Sessions |-> IdleSession]

\* every interleaving of the invocations
Next ==
    \/ \E c \in Handlers, u \in Users : createUserStart(c, u)
    \/ HandlerStep
    \/ SessionStep

Spec == Init /\ [][Next]_vars

\* createUser invocations for one user run one after another
InFlight(u) == \E c \in Handlers : handler[c].user = u /\ handler[c].pc \in {"balance", "reward"}

NextSeq ==
    \/ \E c \in Handlers, u \in Users : ~InFlight(u) /\ createUserStart(c, u)
    \/ HandlerStep
    \/ SessionStep

SpecSeq == Init /\ [][NextSeq]_vars

\* session hydration alone, over every idea table
InitHydrate ==
    /\ credits = [u \in Users |-> 0]
    /\ ideas \in Stores(NumIdeas)
    /\ handler = [c \in Handlers |-> IdleHandler]
    /\ sess = [s \in Sessions |-> IdleSession]

SpecHydrate == InitHydrate /\ [][SessionStep]_vars

\* ------------------------------------------------------------- properties
HandlersOf(u) == { c \in Handlers : handler[c].user = u }
RewardingHandlers(u) == { c \in HandlersOf(u) : handler[c].rewards # <<>> }
SavedRows(u) == { i \in 1..Len(ideas) : u \in ideas[i].savedBy }
AuthoredRows(u) == { i \in 1..Len(ideas) : ideas[i].authorId = u }
Elems(seq) == { seq[i] : i \in 1..Len(seq) }
Hydrated(s) == sess[s].pc = "returned" /\ sess[s].hasUser

\* C1: a createUser invocation that read a zero balance and completed has
\* called reward exactly once, with amount 3, and the user's balance is 3.
C1_ZeroBalanceGetsThree ==
    \A c \in Handlers :
        (handler[c].pc = "done" /\ handler[c].balance = 0)
            => /\ handler[c].rewards = <<3>>
               /\ credits[handler[c].user] = 3

C1_Witness ==
    \E c \in Handlers :
        /\ handler[c].pc = "done" /\ handler[c].before = 0
        /\ handler[c].rewards = <<3>> /\ credits[handler[c].user] = 3

\* C2: under every interleaving at most one createUser invocation per user
\* calls reward (a call that was rejected is not counted).
C2_RewardAtMostOncePerUser ==
    \A u \in Users :
        Cardinality({ c \in RewardingHandlers(u) : handler[c].failedAt # "reward" }) <= 1

\* C3: a returned session holds at most 3 saved ideas and at most 3 authored
\* ideas, and exactly all matching ideas when the table holds fewer than 3.
C3_AtMostThree ==
    \A s \in Sessions : Hydrated(s) =>
        LET u == sess[s].user IN
        /\ Len(sess[s].savedIdeas) <= 3
        /\ Len(sess[s].ideas) <= 3
        /\ Cardinality(SavedRows(u)) < 3 =>
              /\ Len(sess[s].savedIdeas) = Cardinality(SavedRows(u))
              /\ { d.id : d \in Elems(sess[s].savedIdeas) } = SavedRows(u)
        /\ Cardinality(AuthoredRows(u)) < 3 =>
              /\ Len(sess[s].ideas) = Cardinality(AuthoredRows(u))
              /\ { d.id : d \in Elems(sess[s].ideas) } = AuthoredRows(u)

C3_Witness ==
    \E s \in Sessions :
        /\ Hydrated(s)
        /\ Cardinality(SavedRows(sess[s].user)) > 3
        /\ Len(sess[s].savedIdeas) = 3
        /\ Cardinality(AuthoredRows(sess[s].user)) = 2
        /\ Len(sess[s].ideas) = 2

\* C4: a returned session carries the requesting user's id, and every saved
\* idea in it is the mapping of a row that user saved, every authored idea the
\* mapping of a row that user authored.
C4_OnlyOwnIdeas ==
    \A s \in Sessions : Hydrated(s) =>
        LET u == sess[s].user IN
        /\ sess[s].id = u
        /\ \A d \in Elems(sess[s].savedIdeas) :
              \E i \in SavedRows(u) : d = ideaToIdeaDto(ideas[i], TRUE)
        /\ \A d \in Elems(sess[s].ideas) :
              \E i \in AuthoredRows(u) : d = ideaToIdeaDto(ideas[i], FALSE)

C4_Witness ==
    \E s \in Sessions :
        /\ Hydrated(s)
        /\ sess[s].savedIdeas # <<>> /\ sess[s].ideas # <<>>
        /\ \E i \in 1..Len(ideas) :
              sess[s].user \notin ideas[i].savedBy /\ ideas[i].savedBy # {}
        /\ \E i \in 1..Len(ideas) : ideas[i].authorId # sess[s].user

C6_NonZeroUntouched ==
    \A c \in Handlers :
        (handler[c].pc = "done" /\ handler[c].balance # 0)
            => /\ handler[c].rewards = <<>>
               /\ credits[handler[c].user] = handler[c].before

C6_Witness ==
    \E c \in Handlers :
        /\ handler[c].pc = "done" /\ handler[c].balance # 0
        /\ handler[c].rewards = <<>>

\* C7: a failed balance() in createUser ends the handler with reward never
\* called; a failed query in the session callback ends it without a returned
\* session, with no query issued after the failing one; a failed invocation
\* takes no further step.
C7_FailedState ==
    /\ \A c \in Handlers : handler[c].failedAt = "balance" =>
          handler[c].pc = "failed" /\ handler[c].rewards = <<>>
    /\ \A s \in Sessions : sess[s].failedAt \in {"balance", "savedIdeas", "ideas"} =>
          /\ sess[s].pc = "failed"
          /\ sess[s].queries =
                IF ~sess[s].hasUser THEN <<"ideas">>
                ELSE IF sess[s].failedAt = "balance" THEN <<"balance">>
                ELSE IF sess[s].failedAt = "savedIdeas" THEN <<"balance", "savedIdeas">>
                ELSE <<"balance", "savedIdeas", "ideas">>

C7_FailedStays ==
    /\ \A c \in Handlers : handler[c].pc = "failed" => handler'[c] = handler[c]
    /\ \A s \in Sessions : sess[s].pc = "failed" => sess'[s] = sess[s]

\* C7: failures propagate unhandled and stop the callback (state and step parts).
C7_FailuresStop == []C7_FailedState /\ [][C7_FailedStays]_vars

C7_Witness ==
    /\ \E c \in Handlers : handler[c].failedAt = "balance"
    /\ \E s \in Sessions : sess[s].failedAt = "savedIdeas"

\* C8: no step of the session callback changes a balance or the idea table;
\* a balance changes only at the reward of a createUser invocation, by +3.
C8_Frame ==
    /\ ideas' = ideas
    /\ sess' # sess => credits' = credits
    /\ credits' # credits =>
          \E c \in Handlers :
              /\ handler[c].pc = "reward" /\ handler'[c].pc \in {"done", "failed"}
              /\ credits' = [credits EXCEPT ![handler[c].user] = @ + 3]

\* C8: every step keeps the frame above: session hydration is read-only.
C8_SessionReadOnly == [][C8_Frame]_vars

C8_Witness ==
    /\ \E s \in Sessions : Hydrated(s)
    /\ \E c \in Handlers :
          /\ handler[c].pc = "done" /\ handler[c].rewards # <<>>
          /\ credits[handler[c].user] = handler[c].before + 3

\* C9: a session callback entered without session.user issues neither the
\* balance query nor the saved-ideas query, writes no field and never returns.
C9_AbsentUserFails ==
    \A s \in Sessions : (sess[s].pc # "idle" /\ ~sess[s].hasUser) =>
        /\ sess[s].pc \in {"ideas", "failed"}
        /\ sess[s].queries \in {<<>>, <<"ideas">>}
        /\ sess[s].fields = {}

C9_Witness ==
    \E s \in Sessions :
        /\ ~sess[s].hasUser /\ sess[s].pc = "failed"
        /\ sess[s].failedAt = "assign" /\ sess[s].queries = <<"ideas">>

\* C10: when every createUser invocation for a user whose balance started at
\* zero has run to completion, one after another, the balance is 3 and reward
\* was called exactly once.
C10_SequentialIdempotent ==
    \A u \in Users :
        ( /\ HandlersOf(u) # {}
          /\ \A c \in HandlersOf(u) : handler[c].pc = "done"
          /\ \E c \in HandlersOf(u) :
                handler[c].before = 0 /\ \A d \in HandlersOf(u) : c <= d )
            => /\ credits[u] = 3
               /\ Cardinality(RewardingHandlers(u)) = 1
               /\ \A c \in RewardingHandlers(u) : handler[c].rewards = <<3>>

C10_Witness ==
    \E u \in Users :
        /\ Cardinality(HandlersOf(u)) >= 2
        /\ \A c \in HandlersOf(u) : handler[c].pc = "done"
        /\ credits[u] = 3
        /\ Cardinality(RewardingHandlers(u)) = 1
====
